---- MODULE Spec2Model ----
(***************************************************************************)
(* Model of the Voltage Payments client (voltage_payments_api.py): client  *)
(* construction from the environment, the facade operations, and the       *)
(* create-then-poll protocol of generate_bolt11_invoice and                *)
(* pay_bolt11_invoice.  One invocation runs at a time (the host calls the  *)
(* facade synchronously).  The remote service is the environment: every    *)
(* HTTP exchange draws its outcome from a finite set of responses or is a  *)
(* network failure.                                                        *)
(***************************************************************************)
EXTENDS Integers, Sequences, FiniteSets, TLC

VARIABLES
    env,         \* os.environ restricted to the four keys the client reads
    client,      \* the VoltagePaymentsAPI object (None until constructed)
    ctor_error,  \* the exception raised by __init__ (None if none)
    pc,          \* "start" | "no_client" | "idle" | "submitted" | "polling" | "done"
    op,          \* name of the facade method being executed
    args,        \* the arguments the method was called with
    payment_id,  \* local payment_id of the creation operations (None otherwise)
    attempt,     \* loop variable of _poll_payment_status
    log,         \* HTTP requests sent and time.sleep calls made by the invocation
    responses,   \* what the remote end answered to each request of the invocation
    result,      \* what the invocation returned or raised
    utility      \* the call of the OpenAPI extraction utility in progress

vars == <<env, client, ctor_error, pc, op, args, payment_id, attempt, log, responses, result,
          utility>>

----------------------------------------------------------------------------
(* Bounds of the model *)

\* Largest satoshi amount / fee limit a caller passes
MaxSats == 2

----------------------------------------------------------------------------
(* Python values *)

\* Optional values: None is the empty tuple, a present value v is <<v>>
None == <<>>
Some(v) == <<v>>

\* Truth value of an optional string (None and "" are falsy)
Truthy(o) == o # None /\ o[1] # ""

\* dict: a function from keys; d[k] = v as an update that may add the key
EmptyDict == [k \in {} |-> 0]
DictSet(d, k, v) == [x \in (DOMAIN d) \cup {k} |-> IF x = k THEN v ELSE d[x]]

Range(s) == {s[i] : i \in DOMAIN s}

\* Outcome of a call
NoResult == [kind |-> "none"]
Return(v) == [kind |-> "return", value |-> v]
Raise(e) == [kind |-> "raise", error |-> e]

----------------------------------------------------------------------------
(* Environment and construction *)

EnvKeys == {"BASE_URL", "API_KEY", "ORGANIZATION_ID", "ENVIRONMENT_ID"}

\* The value each key has when it is configured
Configured ==
    [k \in EnvKeys |->
        CASE k = "BASE_URL" -> "https://host"
          [] k = "API_KEY" -> "key"
          [] k = "ORGANIZATION_ID" -> "org"
          [] k = "ENVIRONMENT_ID" -> "envid"]

\* os.environ.get(k): None when unset, otherwise the (possibly empty) string
Environments == {e \in [EnvKeys -> {None, Some(""), Some("set")}] : TRUE}
EnvGet(e, k) == IF e[k] = Some("set") THEN Some(Configured[k]) ELSE e[k]

MissingEnvMessage ==
    <<"Missing required environment variables: ",
      "BASE_URL", ", ", "API_KEY", ", ", "ORGANIZATION_ID", ", ", "ENVIRONMENT_ID">>

\* all([...]) of __init__
AllSet(values) == \A i \in DOMAIN values : Truthy(values[i])

\* VoltagePaymentsAPI.__init__: the object, or the exception raised
InitOutcome(e) ==
    IF EnvGet(e, "BASE_URL") = None
    THEN \* None + "/api/v1"
         Raise([exc |-> "TypeError", message |-> <<"unsupported operand type(s) for +">>])
    ELSE LET base_url == Some(EnvGet(e, "BASE_URL")[1] \o "/api/v1")
             api_key == EnvGet(e, "API_KEY")
             organization_id == EnvGet(e, "ORGANIZATION_ID")
             environment_id == EnvGet(e, "ENVIRONMENT_ID")
         IN IF ~AllSet(<<base_url, api_key, organization_id, environment_id>>)
            THEN Raise([exc |-> "ValueError", message |-> MissingEnvMessage])
            ELSE Return([base_url |-> base_url[1],
                         api_key |-> api_key[1],
                         organization_id |-> organization_id[1],
                         environment_id |-> environment_id[1]])

VoltagePaymentsAPI_init ==
    /\ pc = "start"
    /\ LET o == InitOutcome(env)
       IN IF o.kind = "return"
          THEN /\ client' = Some(o.value)
               /\ ctor_error' = None
               /\ pc' = "idle"
          ELSE /\ client' = None
               /\ ctor_error' = Some(o.error)
               /\ pc' = "no_client"
    /\ UNCHANGED <<utility, env, op, args, payment_id, attempt, log, responses, result>>

self == client[1]

get_headers(c) ==
    [h \in {"Content-Type", "X-API-Key"} |->
        IF h = "Content-Type" THEN "application/json" ELSE c.api_key]

----------------------------------------------------------------------------
(* The remote service *)

\* Body texts and what json() makes of them
JsonDocs ==
    [t \in {"{\"status\": \"completed\"}", "{\"status\": \"pending\"}"} |->
        IF t = "{\"status\": \"completed\"}"
        THEN [status |-> "completed"] ELSE [status |-> "pending"]]

JsonParses(text) == text \in DOMAIN JsonDocs
response_json(r) == JsonDocs[r.text]

Response(status, text) == [kind |-> "response", status |-> status, text |-> text]
NetworkError == [kind |-> "network_error"]

\* What a request can meet: a response, or a failure below HTTP
Outcomes ==
    { Response(200, "{\"status\": \"completed\"}"),
      Response(200, "{\"status\": \"pending\"}"),
      Response(200, "<html>"),
      Response(200, ""),
      Response(202, ""),
      Response(202, "{\"status\": \"pending\"}"),
      Response(204, ""),
      Response(204, " "),
      Response(304, "{\"status\": \"completed\"}"),
      Response(304, ""),
      Response(404, ""),
      Response(404, "{\"status\": \"pending\"}"),
      Response(500, "<html>"),
      NetworkError }

\* What a poll request can meet
PollOutcomes ==
    { Response(200, "{\"status\": \"completed\"}"),
      Response(200, "{\"status\": \"pending\"}"),
      Response(200, "<html>"),
      Response(404, ""),
      Response(500, "<html>"),
      NetworkError }

\* requests.Response.raise_for_status raises HTTPError for 4xx and 5xx
raise_for_status(r) == r.status >= 400 /\ r.status < 600

HTTPError(r) == [exc |-> "HTTPError", status |-> r.status, text |-> r.text]
ConnectionError == [exc |-> "ConnectionError"]
JSONDecodeError(r) == [exc |-> "JSONDecodeError", text |-> r.text]
InvalidJsonError(r) ==
    [exc |-> "ValueError", message |-> <<"Invalid JSON response from API: ", r.text>>]

----------------------------------------------------------------------------
(* Requests *)

\* Parameters whose value is a list
ListParams == {"statuses"}

\* The query string requests builds from params: one name=value pair for a
\* scalar, one pair per element for a list (none for an empty list)
EncodeParams(params) ==
    UNION { IF n \in ListParams
            THEN {<<n, params[n][i]>> : i \in DOMAIN params[n]}
            ELSE {<<n, params[n]>>} : n \in DOMAIN params }

Request(method, url, params, json) ==
    [method |-> method, url |-> url, headers |-> get_headers(self),
     params |-> params, query |-> EncodeParams(params), json |-> json]
Sleep(seconds) == [method |-> "sleep", seconds |-> seconds]

\* URLs are kept as their "/"-separated parts after the base
WalletsUrl(c) == <<c.base_url, "organizations", c.organization_id, "wallets">>
WalletUrl(c, wallet_id) == WalletsUrl(c) \o <<wallet_id>>
LedgerUrl(c, wallet_id) == WalletUrl(c, wallet_id) \o <<"ledger">>
PaymentsUrl(c) ==
    <<c.base_url, "organizations", c.organization_id,
      "environments", c.environment_id, "payments">>
PaymentUrl(c, id) == PaymentsUrl(c) \o <<id>>

----------------------------------------------------------------------------
(* Arguments callers pass *)

WalletIds == {"w1"}
PaymentRequests == {"lnbc1"}
Amounts == 0..MaxSats
OptAmounts == {None} \cup {Some(n) : n \in Amounts}
Memos == {None, Some(""), Some("memo")}
\* Values uuid.uuid4() can produce
Uuids == {"uuid-a", "uuid-b"}

----------------------------------------------------------------------------
(* generate_bolt11_invoice and pay_bolt11_invoice: building and sending *)

\* Variant: the amount is passed on unconverted
SatsPassedThrough(sats) == sats

SatsToMsats(sats) == sats * 1000

GeneratePayload(id, wallet_id, amount_sats, memo) ==
    LET amount_msats == SatsToMsats(amount_sats)
        payload == [id |-> id, wallet_id |-> wallet_id, currency |-> "btc",
                    payment_kind |-> "bolt11", amount_msats |-> amount_msats]
    IN IF Truthy(memo) THEN DictSet(payload, "description", memo[1]) ELSE payload

\* Variant: "if amount_sats:" in place of "if amount_sats is not None:"
AmountTruthy(amount_sats) == amount_sats # None /\ amount_sats[1] # 0

AmountGiven(amount_sats) == amount_sats # None
FeeLimitGiven(fee_limit_sats) == fee_limit_sats # None

PayData(payment_request, amount_sats, fee_limit_sats) ==
    LET d0 == [payment_request |-> payment_request]
        d1 == IF AmountGiven(amount_sats)
              THEN DictSet(d0, "amount_msats", SatsToMsats(amount_sats[1])) ELSE d0
        d2 == IF FeeLimitGiven(fee_limit_sats)
              THEN DictSet(d1, "max_fee_msats", SatsToMsats(fee_limit_sats[1])) ELSE d1
    IN d2

PayPayload(id, wallet_id, payment_request, amount_sats, fee_limit_sats) ==
    [id |-> id, wallet_id |-> wallet_id, currency |-> "btc", type |-> "bolt11",
     data |-> PayData(payment_request, amount_sats, fee_limit_sats)]

\* Start of an invocation: fresh locals
Begin(name, a, id, request) ==
    /\ pc = "idle"
    /\ op' = name
    /\ args' = a
    /\ payment_id' = id
    /\ attempt' = 0
    /\ log' = <<request>>
    /\ UNCHANGED <<utility, env, client, ctor_error>>

\* Lines 64-88: build the payload, POST it
generate_bolt11_invoice ==
    /\ pc = "idle"
    /\ \E wallet_id \in WalletIds, amount_sats \in Amounts, memo \in Memos, id \in Uuids :
          /\ Begin("generate_bolt11_invoice",
                   [wallet_id |-> wallet_id, amount_sats |-> Some(amount_sats), memo |-> memo],
                   Some(id),
                   Request("POST", PaymentsUrl(self), EmptyDict,
                           Some(GeneratePayload(id, wallet_id, amount_sats, memo))))
          /\ responses' = <<>>
          /\ result' = NoResult
          /\ pc' = "submitted"

\* Lines 216-245: build the payload, POST it
pay_bolt11_invoice ==
    /\ pc = "idle"
    /\ \E wallet_id \in WalletIds, payment_request \in PaymentRequests,
          amount_sats \in OptAmounts, fee_limit_sats \in OptAmounts, id \in Uuids :
          /\ Begin("pay_bolt11_invoice",
                   [wallet_id |-> wallet_id, payment_request |-> payment_request,
                    amount_sats |-> amount_sats, fee_limit_sats |-> fee_limit_sats],
                   Some(id),
                   Request("POST", PaymentsUrl(self), EmptyDict,
                           Some(PayPayload(id, wallet_id, payment_request,
                                           amount_sats, fee_limit_sats))))
          /\ responses' = <<>>
          /\ result' = NoResult
          /\ pc' = "submitted"

----------------------------------------------------------------------------
(* Handling of a response *)

\* try: return response.json() / except json.JSONDecodeError: raise ValueError
JsonOrValueError(r) ==
    IF JsonParses(r.text) THEN Return(response_json(r)) ELSE Raise(InvalidJsonError(r))

\* response.raise_for_status() followed by the guarded json()
CheckedJson(o) ==
    IF o.kind = "network_error" THEN Raise(ConnectionError)
    ELSE IF raise_for_status(o) THEN Raise(HTTPError(o))
    ELSE JsonOrValueError(o)

Poll == [kind |-> "poll"]

\* Lines 88-113 of generate_bolt11_invoice: what the answer to the POST leads to
generate_bolt11_invoice_response(o) ==
    IF o.kind = "network_error" THEN Raise(ConnectionError)
    ELSE IF o.status = 202 THEN Poll
    ELSE CheckedJson(o)

\* Lines 245-270 of pay_bolt11_invoice: what the answer to the POST leads to
pay_bolt11_invoice_response(o) ==
    IF o.kind = "network_error" THEN Raise(ConnectionError)
    ELSE IF o.status = 202 THEN Poll
    ELSE CheckedJson(o)

\* The answer to the creation POST arrives
CreationResponse ==
    /\ pc = "submitted"
    /\ \E o \in Outcomes :
          LET next == IF op = "generate_bolt11_invoice"
                      THEN generate_bolt11_invoice_response(o)
                      ELSE pay_bolt11_invoice_response(o)
          IN /\ responses' = Append(responses, o)
             /\ IF next = Poll
                THEN /\ pc' = "polling"
                     /\ result' = result
                ELSE /\ pc' = "done"
                     /\ result' = next
    /\ UNCHANGED <<utility, env, client, ctor_error, op, args, payment_id, attempt, log>>

----------------------------------------------------------------------------
(* _poll_payment_status *)

max_attempts == 5
delay_seconds == 2

\* Variant: the loop has no limit on the attempts
AttemptsUnbounded(a) == a >= 0

\* Variant: the loop bound is off by one
AttemptsLeftInclusive(a) == a <= max_attempts

\* for attempt in range(max_attempts): is there another iteration
AttemptsLeft(a) == a < max_attempts

\* Variant: the poller asks for an identifier other than the one submitted
PollUrlOtherId(c, id) == PaymentUrl(c, CHOOSE u \in Uuids : u # id)

\* Line 130: the URL polled, computed from the payment_id argument
PollUrl(c, id) == PaymentUrl(c, id)

\* Line 159
PollTimeoutMessage ==
    <<"Failed to retrieve payment details after ", ToString(max_attempts), " attempts">>

\* Variant: an attempt submits the payment again instead of asking for it
PollResubmits(id) == Request("POST", PaymentsUrl(self), EmptyDict, Some([id |-> id]))

\* Line 136: requests.get(url, headers=self._get_headers())
PollRequest(id) == Request("GET", PollUrl(self, id), EmptyDict, None)

\* Variant: a network error is not caught inside the loop
PollStepUncaught(o) ==
    IF o.kind = "network_error" THEN "raise"
    ELSE IF o.status = 200 /\ JsonParses(o.text) THEN "return"
    ELSE "sleep"

\* What one iteration of the loop does with the outcome of its GET:
\*   "return"  line 143;  "sleep"  line 153, then the next iteration;
\*   "retry"   lines 155-157, the next iteration without sleeping
PollStep(o) ==
    IF o.kind = "network_error" THEN "retry"
    ELSE IF o.status = 200 /\ JsonParses(o.text) THEN "return"
    ELSE "sleep"

\* One iteration of the for loop (lines 133-157)
poll_payment_status_attempt ==
    /\ pc = "polling"
    /\ AttemptsLeft(attempt)
    /\ \E o \in PollOutcomes :
          LET request == PollRequest(payment_id[1])
              step == PollStep(o)
          IN /\ responses' = Append(responses, o)
             /\ CASE step = "return" ->
                       /\ log' = log \o <<request>>
                       /\ result' = Return(response_json(o))
                       /\ pc' = "done"
                       /\ attempt' = attempt
                  [] step = "sleep" ->
                       /\ log' = log \o <<request, Sleep(delay_seconds)>>
                       /\ attempt' = attempt + 1
                       /\ UNCHANGED <<result, pc>>
                  [] step = "retry" ->
                       /\ log' = log \o <<request>>
                       /\ attempt' = attempt + 1
                       /\ UNCHANGED <<result, pc>>
                  [] OTHER ->
                       /\ log' = log \o <<request>>
                       /\ result' = Raise(ConnectionError)
                       /\ pc' = "done"
                       /\ attempt' = attempt
    /\ UNCHANGED <<utility, env, client, ctor_error, op, args, payment_id>>

\* The loop ran out (line 159)
poll_payment_status_exhausted ==
    /\ pc = "polling"
    /\ ~AttemptsLeft(attempt)
    /\ result' = Raise([exc |-> "ValueError", message |-> PollTimeoutMessage])
    /\ pc' = "done"
    /\ UNCHANGED <<utility, env, client, ctor_error, op, args, payment_id, attempt, log, responses>>

----------------------------------------------------------------------------
(* The operations that make one request *)

\* Variant: a request that fails below HTTP is sent a second time
CallWithRetry(name, a, id, request, o, res) ==
    /\ pc = "idle"
    /\ op' = name
    /\ args' = a
    /\ payment_id' = id
    /\ attempt' = 0
    /\ log' = IF o = NetworkError THEN <<request, request>> ELSE <<request>>
    /\ responses' = <<o>>
    /\ result' = res
    /\ pc' = "done"
    /\ UNCHANGED <<utility, env, client, ctor_error>>

\* One request, its outcome, and the result the method's handling gives
Call(name, a, id, request, o, res) ==
    /\ Begin(name, a, id, request)
    /\ responses' = <<o>>
    /\ result' = res
    /\ pc' = "done"

\* Lines 45-47: no try block; json() raises on an unparseable body
get_all_wallets_response(o) ==
    IF o.kind = "network_error" THEN Raise(ConnectionError)
    ELSE IF raise_for_status(o) THEN Raise(HTTPError(o))
    ELSE IF JsonParses(o.text) THEN Return(response_json(o))
    ELSE Raise(JSONDecodeError(o))

get_all_wallets ==
    /\ pc = "idle"
    /\ \E o \in Outcomes :
           Call("get_all_wallets", EmptyDict, None,
                Request("GET", WalletsUrl(self), EmptyDict, None),
                o, get_all_wallets_response(o))

WalletRequests ==
    { [id |-> "w1", environment_id |-> "envid", line_of_credit_id |-> "loc",
       name |-> "n", network |-> "mutinynet", limit |-> 100] }

create_wallet_response(o) == CheckedJson(o)

create_wallet ==
    /\ pc = "idle"
    /\ \E wallet_request \in WalletRequests, o \in Outcomes :
           Call("create_wallet", [wallet_request |-> wallet_request], None,
                Request("POST", WalletsUrl(self), EmptyDict, Some(wallet_request)),
                o, create_wallet_response(o))

get_wallet_response(o) == CheckedJson(o)

get_wallet ==
    /\ pc = "idle"
    /\ \E wallet_id \in WalletIds, o \in Outcomes :
           Call("get_wallet", [wallet_id |-> wallet_id], None,
                Request("GET", WalletUrl(self, wallet_id), EmptyDict, None),
                o, get_wallet_response(o))

\* str.strip() on the body texts of the model
Strip(text) == IF text = " " THEN "" ELSE text

DeletedMessage(wallet_id) == <<"Wallet ", wallet_id, " deleted successfully">>

\* Lines 371-394
delete_wallet_response(wallet_id, o) ==
    IF o.kind = "network_error" THEN Raise(ConnectionError)
    ELSE IF raise_for_status(o) THEN Raise(HTTPError(o))
    ELSE IF Strip(o.text) = ""
         THEN Return([success |-> TRUE, message |-> DeletedMessage(wallet_id)])
    ELSE JsonOrValueError(o)

delete_wallet ==
    /\ pc = "idle"
    /\ \E wallet_id \in WalletIds, o \in Outcomes :
           Call("delete_wallet", [wallet_id |-> wallet_id], None,
                Request("DELETE", WalletUrl(self, wallet_id), EmptyDict, None),
                o, delete_wallet_response(wallet_id, o))

check_payment_status_response(o) == CheckedJson(o)

check_payment_status ==
    /\ pc = "idle"
    /\ \E id \in Uuids, o \in Outcomes :
           Call("check_payment_status", [payment_id |-> id], None,
                Request("GET", PaymentUrl(self, id), EmptyDict, None),
                o, check_payment_status_response(o))

\* The optional filters, in the order the code tests them
LedgerFilters ==
    <<"offset", "limit", "payment_id", "start_date", "end_date", "sort_key", "sort_order">>
PaymentsFilters ==
    <<"offset", "limit", "wallet_id", "statuses", "sort_key", "sort_order",
      "kind", "direction", "start_date", "end_date">>

\* A value a caller may pass for a filter: the falsy one of its type, or another
FilterValue(name, falsy) ==
    CASE name \in {"offset", "limit"} -> IF falsy THEN 0 ELSE 10
      [] name = "statuses" -> IF falsy THEN <<>> ELSE <<"completed">>
      [] OTHER -> IF falsy THEN "" ELSE "x"

FilterArgs(names, supplied, falsy) ==
    [n \in Range(names) |-> IF n \in supplied THEN Some(FilterValue(n, falsy)) ELSE None]

FilterGiven(value) == value # None

\* Variant: "if x:" in place of "if x is not None:"
BuildParamsTruthy(names, a) ==
    [n \in {m \in Range(names) : a[m] # None /\ a[m] # Some(FilterValue(m, TRUE))}
        |-> a[n][1]]

\* params = {}; if x is not None: params['x'] = x; ...
BuildParams(names, a) ==
    [n \in {m \in Range(names) : FilterGiven(a[m])} |-> a[n][1]]

get_wallet_ledger_as_user_response(o) == CheckedJson(o)

get_wallet_ledger_as_user ==
    /\ pc = "idle"
    /\ \E wallet_id \in WalletIds, supplied \in SUBSET Range(LedgerFilters),
          falsy \in BOOLEAN, o \in Outcomes :
           LET a == FilterArgs(LedgerFilters, supplied, falsy)
           IN Call("get_wallet_ledger_as_user", [wallet_id |-> wallet_id, filters |-> a], None,
                   Request("GET", LedgerUrl(self, wallet_id), BuildParams(LedgerFilters, a), None),
                   o, get_wallet_ledger_as_user_response(o))

get_payments_response(o) == CheckedJson(o)

get_payments ==
    /\ pc = "idle"
    /\ \E supplied \in SUBSET Range(PaymentsFilters), falsy \in BOOLEAN, o \in Outcomes :
           LET a == FilterArgs(PaymentsFilters, supplied, falsy)
           IN Call("get_payments", [filters |-> a], None,
                   Request("GET", PaymentsUrl(self), BuildParams(PaymentsFilters, a), None),
                   o, get_payments_response(o))

\* The method returns to the host and its locals are gone; the host may call again
ReturnToHost ==
    /\ pc = "done"
    /\ pc' = "idle"
    /\ op' = "none"
    /\ args' = EmptyDict
    /\ payment_id' = None
    /\ attempt' = 0
    /\ log' = <<>>
    /\ responses' = <<>>
    /\ result' = NoResult
    /\ UNCHANGED <<utility, env, client, ctor_error>>

----------------------------------------------------------------------------
(* openapi_to_mcp.py: extract_operation_details and create_tool_schema *)

\* Largest number of entries (path + key) in a specification document
MaxOps == 2
\* Largest number of parameters of an operation
MaxParams == 2

\* dict.get(key, default)
DictGet(d, k, default) == IF k \in DOMAIN d THEN d[k] ELSE default

\* Parameter objects: located in path, query or header, with or without
\* schema, type, description and required; and a reference without location
ParamDetails ==
    { [deprecated |-> FALSE],
      [schema |-> [format |-> "int32"], description |-> "d", required |-> TRUE],
      [schema |-> [type |-> "integer"], description |-> "d", required |-> FALSE] }
ParamObjects ==
    { [k \in {"ref"} |-> "#/components/parameters/x"] }
    \cup { DictSet(DictSet(d, "in", loc), "name", name) :
              d \in ParamDetails, loc \in {"path", "query", "header"},
              name \in {"id", "limit"} }

SeqsUpTo(S, n) == UNION { [1..k -> S] : k \in 0..n }

\* Operations of the documents
OperationIds == {"opA", "opB"}
OneParam == <<[name |-> "id", in |-> "path"]>>
Operations ==
    { [summary |-> "s"],
      [operationId |-> "opA"],
      [operationId |-> "opA", parameters |-> OneParam],
      [operationId |-> "opB"] }

\* Documents: ordered path -> path item, a path item being ordered key -> value.
\* A dict that keeps its order is a sequence of <<key, value>> pairs.
PathNames == {"/a", "/b"}
ItemKeys == {"get", "post", "head"}
AllFlatEntries == PathNames \X ItemKeys \X Operations

\* In document order the entries of one path are together and keys are unique
WellFormedFlat(f) ==
    /\ \A i, j \in DOMAIN f : (i # j) => <<f[i][1], f[i][2]>> # <<f[j][1], f[j][2]>>
    /\ \A i, j, k \in DOMAIN f : (i < j /\ j < k /\ f[i][1] = f[k][1]) => f[j][1] = f[i][1]

PathOrder(f) ==
    LET first == {i \in DOMAIN f : \A j \in 1..(i - 1) : f[j][1] # f[i][1]}
        nth[k \in 1..Cardinality(first)] ==
            CHOOSE i \in first : Cardinality({j \in first : j < i}) = k - 1
    IN [k \in 1..Cardinality(first) |-> f[nth[k]][1]]

PathItem(f, path) ==
    LET sel == SelectSeq(f, LAMBDA e : e[1] = path)
    IN [i \in DOMAIN sel |-> <<sel[i][2], sel[i][3]>>]

DocumentOf(f) ==
    LET order == PathOrder(f)
    IN [paths |-> [i \in DOMAIN order |-> <<order[i], PathItem(f, order[i])>>]]

Documents ==
    {[openapi |-> "3.0.0"]} \cup
    { DocumentOf(f) : f \in {g \in SeqsUpTo(AllFlatEntries, MaxOps) : WellFormedFlat(g)} }

\* Variant: the test on the method is left out
AnyKey(method) == TRUE

\* method in ['get', 'post', 'put', 'delete', 'patch']
IsListedMethod(method) == method \in {"get", "post", "put", "delete", "patch"}

\* operation.get('operationId') == operation_id
HasOperationId(operation, operation_id) ==
    "operationId" \in DOMAIN operation /\ operation["operationId"] = operation_id

\* Lines 30-41: the first match in the order of the two loops, or None
ExtractOperationDetails(spec, operation_id) ==
    LET paths == DictGet(spec, "paths", <<>>)
        matches == { <<i, j>> \in UNION { {i} \X DOMAIN paths[i][2] : i \in DOMAIN paths } :
                        /\ IsListedMethod(paths[i][2][j][1])
                        /\ HasOperationId(paths[i][2][j][2], operation_id) }
    IN IF matches = {} THEN None
       ELSE LET m == CHOOSE x \in matches :
                       \A y \in matches : x[1] < y[1] \/ (x[1] = y[1] /\ x[2] <= y[2])
                operation == paths[m[1]][2][m[2]][2]
            IN Some([path |-> paths[m[1]][1],
                     method |-> paths[m[1]][2][m[2]][1],
                     operation |-> operation,
                     parameters |-> DictGet(operation, "parameters", <<>>),
                     responses |-> DictGet(operation, "responses", EmptyDict),
                     requestBody |-> DictGet(operation, "requestBody", None)])

NoCall == [fn |-> "none"]

extract_operation_details ==
    /\ utility = NoCall
    /\ \E spec \in Documents, operation_id \in OperationIds :
          utility' = [fn |-> "extract_operation_details", spec |-> spec,
                      operation_id |-> operation_id,
                      result |-> ExtractOperationDetails(spec, operation_id)]
    /\ UNCHANGED <<env, client, ctor_error, pc, op, args, payment_id, attempt, log,
                   responses, result>>

\* Variant: the test on the location is left out
ParamAnywhere(param, location) == "name" \in DOMAIN param

\* param.get('in') == location
ParamLocatedIn(param, location) == "in" \in DOMAIN param /\ param["in"] = location

\* Lines 60-64 and 71-75: the entry made for a parameter
ParamEntry(param) ==
    [type |-> DictGet(DictGet(param, "schema", EmptyDict), "type", "string"),
     description |-> DictGet(param, "description", ""),
     required |-> DictGet(param, "required", FALSE)]

\* One of the two loops: parameters[name] = entry for each parameter located there
RECURSIVE AddParameters(_, _, _)
AddParameters(parameters, list, location) ==
    IF list = <<>> THEN parameters
    ELSE LET param == Head(list)
         IN AddParameters(IF ParamLocatedIn(param, location)
                          THEN DictSet(parameters, param["name"], ParamEntry(param))
                          ELSE parameters,
                          Tail(list), location)

\* Lines 53-83
CreateToolSchema(operation_details) ==
    LET list == DictGet(operation_details, "parameters", <<>>)
        operation == operation_details["operation"]
        parameters == AddParameters(AddParameters(EmptyDict, list, "path"), list, "query")
    IN [name |-> "voltage://" \o operation["operationId"],
        description |-> DictGet(operation, "description",
                           DictGet(operation, "summary",
                               "Execute " \o operation["operationId"])),
        parameters |-> parameters]

\* Operation details handed to create_tool_schema
DescribedOperations ==
    { [operationId |-> "opA"],
      [operationId |-> "opA", summary |-> "s"],
      [operationId |-> "opA", summary |-> "s", description |-> "long"] }
OperationDetails ==
    { [operation |-> o] : o \in DescribedOperations }
    \cup { [operation |-> o, parameters |-> l] :
              o \in DescribedOperations, l \in SeqsUpTo(ParamObjects, MaxParams) }

create_tool_schema ==
    /\ utility = NoCall
    /\ \E operation_details \in OperationDetails :
          utility' = [fn |-> "create_tool_schema", operation_details |-> operation_details,
                      result |-> CreateToolSchema(operation_details)]
    /\ UNCHANGED <<env, client, ctor_error, pc, op, args, payment_id, attempt, log,
                   responses, result>>

\* The function returns
UtilityReturn ==
    /\ utility # NoCall
    /\ utility' = NoCall
    /\ UNCHANGED <<env, client, ctor_error, pc, op, args, payment_id, attempt, log,
                   responses, result>>

----------------------------------------------------------------------------
Init ==
    /\ env \in Environments
    /\ client = None
    /\ ctor_error = None
    /\ pc = "start"
    /\ op = "none"
    /\ args = EmptyDict
    /\ payment_id = None
    /\ attempt = 0
    /\ log = <<>>
    /\ responses = <<>>
    /\ result = NoResult
    /\ utility = NoCall

Next ==
    \/ VoltagePaymentsAPI_init
    \/ generate_bolt11_invoice
    \/ pay_bolt11_invoice
    \/ CreationResponse
    \/ poll_payment_status_attempt
    \/ poll_payment_status_exhausted
    \/ get_all_wallets
    \/ create_wallet
    \/ get_wallet
    \/ delete_wallet
    \/ get_wallet_ledger_as_user
    \/ check_payment_status
    \/ get_payments
    \/ ReturnToHost

Spec == Init /\ [][Next]_vars

\* The host calls only the two creation tools.  Every HTTP request returns or
\* raises and the method runs on without waiting for anything else, so the
\* steps that follow a request are taken: weak fairness on each of them.
NextCreation ==
    \/ VoltagePaymentsAPI_init
    \/ generate_bolt11_invoice
    \/ pay_bolt11_invoice
    \/ CreationResponse
    \/ poll_payment_status_attempt
    \/ poll_payment_status_exhausted
    \/ ReturnToHost

SpecCreation ==
    /\ Init
    /\ [][NextCreation]_vars
    /\ WF_vars(CreationResponse)
    /\ WF_vars(poll_payment_status_attempt)
    /\ WF_vars(poll_payment_status_exhausted)

\* The extraction utility on its own (it shares nothing with the client)
InitUtility ==
    /\ Init
    /\ env = [k \in EnvKeys |-> Some("set")]

NextUtility ==
    \/ extract_operation_details
    \/ create_tool_schema
    \/ UtilityReturn

SpecUtility == InitUtility /\ [][NextUtility]_vars

----------------------------------------------------------------------------
(* Vocabulary of the properties *)

CreationOps == {"generate_bolt11_invoice", "pay_bolt11_invoice"}
InCreation == op \in CreationOps /\ pc \in {"submitted", "polling", "done"}

\* The answers to the poll requests of the current invocation
PollAnswers == IF responses = <<>> THEN <<>> ELSE Tail(responses)

IsGet(ev) == ev.method = "GET"
GetCount == Len(SelectSeq(log, IsGet))

Is404(o) == o.kind = "response" /\ o.status = 404
IsGood200(o) == o.kind = "response" /\ o.status = 200 /\ JsonParses(o.text)

TimedOut ==
    /\ result.kind = "raise"
    /\ result.error.exc = "ValueError"
    /\ result.error.message[1] = "Failed to retrieve payment details after "

\* The poller was entered: the creation POST was answered 202
Polled == InCreation /\ pc # "submitted" /\ responses[1].kind = "response"
          /\ responses[1].status = 202

----------------------------------------------------------------------------
(* C1 *)

C1_State ==
    Polled =>
        LET n == Len(PollAnswers)
        IN /\ \* k times 404, then a parseable 200: that body, after k+1 GETs
              (/\ n >= 1
               /\ \A i \in 1..(n - 1) : Is404(PollAnswers[i])
               /\ IsGood200(PollAnswers[n]))
              => /\ n - 1 < 5
                 /\ pc = "done"
                 /\ result = Return(JsonDocs[PollAnswers[n].text])
                 /\ GetCount = n
           /\ \* 404 on all attempts: five GETs and no more, then the timeout
              (n >= 5 /\ \A i \in 1..n : Is404(PollAnswers[i]))
              => /\ n = 5
                 /\ GetCount = 5
                 /\ pc = "done" => TimedOut

C1_Step ==
    (Polled /\ pc = "polling" /\ Len(PollAnswers) = 5
       /\ \A i \in 1..5 : Is404(PollAnswers[i]))
    => (pc' = "done" /\ TimedOut' /\ log' = log)

\* C1: with the default 5 attempts, 404 on the first k < 5 polls and then a
\* parseable 200 makes the poller return that body after exactly k+1 GET
\* requests; 404 on all 5 polls makes it raise the timeout error after exactly
\* 5 GET requests, without a sixth.
C1_PollerCountsAttempts == [][C1_State' /\ C1_Step]_vars

\* A poll that returned the body of its third answer after two 404s
C1_Witness ==
    /\ Polled /\ pc = "done" /\ result.kind = "return"
    /\ Len(PollAnswers) = 3 /\ Is404(PollAnswers[1]) /\ Is404(PollAnswers[2])
    /\ GetCount = 3


----------------------------------------------------------------------------
(* C2 *)

\* The state of the creation state machine the invocation is in
PaymentState ==
    CASE pc = "submitted" -> "SUBMITTED"
      [] pc = "polling" -> "PENDING"
      [] pc = "done" /\ result.kind = "return" -> "RESOLVED"
      [] pc = "done" /\ TimedOut -> "TIMED_OUT"
      [] pc = "done" -> "FAILED"
      [] OTHER -> "NONE"

C2_Submission ==
    (InCreation /\ pc = "submitted" /\ pc' # "submitted") =>
        LET o == responses'[1]
        IN o.kind = "response" =>
             /\ (o.status = 200 /\ JsonParses(o.text))
                  => (PaymentState' = "RESOLVED" /\ log' = log)
             /\ (o.status = 202) <=> (PaymentState' = "PENDING")
             /\ (o.status < 200 \/ o.status >= 300)
                  => (PaymentState' = "FAILED" /\ log' = log)

C2_Polling ==
    (InCreation /\ pc = "polling" /\ responses' # responses) =>
        LET o == responses'[Len(responses')]
        IN /\ IsGood200(o) => PaymentState' = "RESOLVED"
           /\ Is404(o) => PaymentState' = "PENDING"
           /\ PaymentState' \in {"RESOLVED", "PENDING"}

C2_Exhausted ==
    (InCreation /\ pc = "polling" /\ responses' = responses /\ pc' # pc)
        => (attempt = 5 /\ PaymentState' = "TIMED_OUT" /\ log' = log)

C2_Terminal ==
    (InCreation /\ pc = "done") => (pc' = "idle" /\ log' = <<>>)

\* C2: an invocation of generate_bolt11_invoice or pay_bolt11_invoice goes
\* SUBMITTED -> RESOLVED on a 200 answer (no poll), SUBMITTED -> PENDING on 202
\* and only on 202, SUBMITTED -> FAILED on any answer outside 2xx (no poll);
\* PENDING -> RESOLVED on a poll 200, PENDING -> PENDING on a poll 404,
\* PENDING -> TIMED_OUT when the attempts are used up; RESOLVED, FAILED and
\* TIMED_OUT are terminal: no request and no transition follows them.
C2_StateMachine ==
    [][C2_Submission /\ C2_Polling /\ C2_Exhausted /\ C2_Terminal]_vars

----------------------------------------------------------------------------
(* C3 *)

Last(seq) == seq[Len(seq)]

\* C3: in both creation operations the correlation id exists before the POST
\* is sent and is the "id" of the submitted body, and after a 202 every poll
\* request asks for the payment-status path that ends in exactly that id.
C3_CorrelationIdReused ==
    InCreation =>
        /\ payment_id # None
        /\ log[1].method = "POST"
        /\ log[1].json # None
        /\ log[1].json[1].id = payment_id[1]
        /\ \A i \in 2..Len(log) :
              IsGet(log[i]) =>
                  /\ Polled
                  /\ log[i].url = PaymentsUrl(self) \o <<log[1].json[1].id>>
                  /\ Last(log[i].url) = payment_id[1]

\* Three polls were sent for the submitted id
C3_Witness ==
    /\ Polled /\ pc = "polling" /\ GetCount = 3
    /\ \A i \in 2..Len(log) : IsGet(log[i]) => Last(log[i].url) = log[1].json[1].id

----------------------------------------------------------------------------
(* C4 *)

\* An attempt that did not resolve the payment
FailedAttempt(o) == ~IsGood200(o)

C4_Step ==
    (Polled /\ pc = "polling") =>
        /\ \* an attempt was made
           responses' # responses =>
               LET o == Last(responses')
               IN /\ attempt < 5
                  /\ FailedAttempt(o) =>
                        /\ pc' = "polling"
                        /\ result' = NoResult
                        /\ attempt' = attempt + 1
                  /\ IsGood200(o) =>
                        /\ pc' = "done"
                        /\ result' = Return(JsonDocs[o.text])
        /\ \* the loop ended without an attempt: all attempts are used
           (responses' = responses /\ pc' # pc) =>
               /\ attempt = 5
               /\ Len(PollAnswers) = 5
               /\ \A i \in 1..5 : FailedAttempt(PollAnswers[i])
               /\ TimedOut'

\* C4: in the poll loop an attempt that fails (network error, 200 with an
\* unparseable body, any status other than 200) never ends the loop: the next
\* attempt follows while attempts remain, a later parseable 200 is returned,
\* and the failure shows only as the timeout error after all attempts; the
\* loop ends before the last attempt only by resolving.
C4_FailedAttemptsAreSwallowed == [][C4_Step]_vars

\* A payment resolved on the fourth poll, after a network error, an
\* unparseable 200 and a 500
C4_Witness ==
    /\ Polled /\ pc = "done" /\ result.kind = "return"
    /\ Len(PollAnswers) = 4
    /\ PollAnswers[1] = NetworkError
    /\ PollAnswers[2] = Response(200, "<html>")
    /\ PollAnswers[3] = Response(500, "<html>")

----------------------------------------------------------------------------
(* C5 *)

\* C5: the timeout error raised when all attempts are used without a 200
\* names the correlation id that was polled and the number of attempts made.
C5_TimeoutNamesIdAndAttempts ==
    (Polled /\ pc = "done" /\ TimedOut) =>
        /\ ToString(Len(PollAnswers)) \in Range(result.error.message)
        /\ payment_id[1] \in Range(result.error.message)

----------------------------------------------------------------------------
(* C6 *)

SingleRequestOps ==
    {"get_all_wallets", "create_wallet", "get_wallet", "delete_wallet",
     "get_wallet_ledger_as_user", "check_payment_status", "get_payments"}

\* The invocation has ended on the answer to its only request
AnsweredOnce ==
    /\ pc = "done"
    /\ op \in SingleRequestOps \cup CreationOps
    /\ Len(responses) = 1
    /\ responses[1].kind = "response"

\* C6: in every call that does not poll (the seven single-request operations
\* and the submission of the two creation operations) a response status
\* outside [200,300) makes the call raise a transport error carrying that
\* status and the raw body; nothing is returned for such a status.
C6_Non2xxRaisesTransportError ==
    (AnsweredOnce /\ (responses[1].status < 200 \/ responses[1].status >= 300)) =>
        /\ result.kind = "raise"
        /\ result.error.exc = "HTTPError"
        /\ result.error.status = responses[1].status
        /\ result.error.text = responses[1].text

----------------------------------------------------------------------------
(* C7 *)

IsMalformedResponseError(e) ==
    /\ e.exc = "ValueError"
    /\ e.message[1] = "Invalid JSON response from API: "

\* C7: in every facade operation a 2xx response whose body is not JSON makes
\* the operation fail with the malformed-response error, which is neither the
\* transport error nor the poll timeout error, and never with the JSON parse
\* exception itself.  (The empty body of a successful delete_wallet and the
\* 202 of the creation operations have their own rules and are left out.)
C7_UnparseableBodyIsMalformedError ==
    (/\ AnsweredOnce
     /\ responses[1].status >= 200 /\ responses[1].status < 300
     /\ ~JsonParses(responses[1].text)
     /\ ~(op = "delete_wallet" /\ Strip(responses[1].text) = ""))
    => /\ result.kind = "raise"
       /\ IsMalformedResponseError(result.error)
       /\ result.error.exc \notin {"JSONDecodeError", "HTTPError"}

----------------------------------------------------------------------------
(* C8 *)

NamesAllKeys(message) == EnvKeys \subseteq Range(message)

\* C8: constructing the client with any of BASE_URL, API_KEY, ORGANIZATION_ID,
\* ENVIRONMENT_ID missing or empty fails with a configuration error whose
\* message names all four keys, whichever key is absent, and leaves no client.
C8_MissingEnvFailsConstruction ==
    (pc # "start" /\ \E k \in EnvKeys : ~Truthy(env[k])) =>
        /\ client = None
        /\ ctor_error # None
        /\ ctor_error[1].exc = "ValueError"
        /\ NamesAllKeys(ctor_error[1].message)

----------------------------------------------------------------------------
(* C9 *)

PostedBody == log[1].json[1]

\* C9: satoshi amounts are converted to millisatoshis exactly once: the
\* amount_msats sent by generate_bolt11_invoice is amount_sats * 1000, and
\* pay_bolt11_invoice sends a supplied amount_sats as data.amount_msats =
\* amount_sats * 1000 and a supplied fee_limit_sats as data.max_fee_msats =
\* fee_limit_sats * 1000.
C9_AmountsSentInMsats ==
    /\ (InCreation /\ op = "generate_bolt11_invoice") =>
          PostedBody.amount_msats = args.amount_sats[1] * 1000
    /\ (InCreation /\ op = "pay_bolt11_invoice") =>
          /\ args.amount_sats # None =>
                PostedBody.data["amount_msats"] = args.amount_sats[1] * 1000
          /\ args.fee_limit_sats # None =>
                PostedBody.data["max_fee_msats"] = args.fee_limit_sats[1] * 1000

\* A payment of 2 sat with a fee limit of 1 sat was submitted
C9_Witness ==
    /\ InCreation /\ op = "pay_bolt11_invoice"
    /\ args.amount_sats = Some(2) /\ args.fee_limit_sats = Some(1)
    /\ PostedBody.data["amount_msats"] = 2000
    /\ PostedBody.data["max_fee_msats"] = 1000

----------------------------------------------------------------------------
(* C10 *)

\* C10: the data object pay_bolt11_invoice sends has amount_msats exactly when
\* amount_sats was supplied and max_fee_msats exactly when fee_limit_sats was
\* supplied; an omitted value is not sent at all, a supplied 0 is sent as 0.
C10_OptionalAmountsPresentIffSupplied ==
    (InCreation /\ op = "pay_bolt11_invoice") =>
        LET data == PostedBody.data
        IN /\ ("amount_msats" \in DOMAIN data) <=> (args.amount_sats # None)
           /\ ("max_fee_msats" \in DOMAIN data) <=> (args.fee_limit_sats # None)
           /\ args.amount_sats = Some(0) => data["amount_msats"] = 0
           /\ args.fee_limit_sats = Some(0) => data["max_fee_msats"] = 0
           /\ DOMAIN data \subseteq {"payment_request", "amount_msats", "max_fee_msats"}

\* A payment with amount 0 and no fee limit was submitted
C10_Witness ==
    /\ InCreation /\ op = "pay_bolt11_invoice"
    /\ args.amount_sats = Some(0) /\ args.fee_limit_sats = None
    /\ DOMAIN PostedBody.data = {"payment_request", "amount_msats"}
    /\ PostedBody.data["amount_msats"] = 0

----------------------------------------------------------------------------
(* C11 *)

FilteredOps == {"get_wallet_ledger_as_user", "get_payments"}

Supplied == {n \in DOMAIN args.filters : args.filters[n] # None}
SentNames == {pair[1] : pair \in log[1].query}

\* C11 as stated: in get_wallet_ledger_as_user and get_payments the names of
\* the query parameters sent are exactly the filters the caller supplied, with
\* the supplied values, and nothing is sent for an absent filter.
C11_QueryNamesEqualSupplied ==
    (op \in FilteredOps /\ pc = "done") =>
        /\ SentNames = Supplied
        /\ \A pair \in log[1].query : pair[1] \notin ListParams
              => pair[2] = args.filters[pair[1]][1]

\* Filters supplied as an empty list
SuppliedEmptyList == {n \in Supplied \cap ListParams : args.filters[n][1] = <<>>}

\* C11 (amended): the params handed to the request have exactly the supplied
\* filters as keys, 7 at most for the ledger and 10 at most for the payments,
\* with the supplied values unchanged; the query parameter names sent are the
\* supplied filters except a statuses filter supplied as an empty list, which
\* yields no parameter; nothing is sent for an absent filter.
C11_QueryNamesEqualSuppliedNonEmpty ==
    (op \in FilteredOps /\ pc = "done") =>
        LET params == log[1].params
        IN /\ Cardinality(DOMAIN args.filters)
                = (IF op = "get_payments" THEN 10 ELSE 7)
           /\ DOMAIN params = Supplied
           /\ \A n \in DOMAIN params : params[n] = args.filters[n][1]
           /\ SentNames = Supplied \ SuppliedEmptyList
           /\ \A pair \in log[1].query :
                 IF pair[1] \in ListParams
                 THEN pair[2] \in Range(args.filters[pair[1]][1])
                 ELSE pair[2] = args.filters[pair[1]][1]
           /\ Supplied = {} => log[1].query = {}

\* get_payments was called with offset 0 and an empty sort_key only
C11_Witness ==
    /\ op = "get_payments" /\ pc = "done"
    /\ Supplied = {"offset", "sort_key"}
    /\ log[1].query = {<<"offset", 0>>, <<"sort_key", "">>}

----------------------------------------------------------------------------
(* C12 *)

Is2xx(o) == o.status >= 200 /\ o.status < 300

\* C12: delete_wallet returns a synthesized result with success = true and a
\* message on a 2xx response with an empty body, returns the parsed body on a
\* 2xx response with a non-empty (JSON) body, and raises the transport error
\* on a response outside 2xx even when its body is empty.
C12_DeleteWalletOutcomes ==
    (op = "delete_wallet" /\ pc = "done" /\ responses[1].kind = "response") =>
        LET o == responses[1]
        IN /\ (Is2xx(o) /\ o.text = "") =>
                 /\ result.kind = "return"
                 /\ result.value.success = TRUE
                 /\ result.value.message # <<>>
           /\ (Is2xx(o) /\ JsonParses(o.text)) => result = Return(JsonDocs[o.text])
           /\ ~Is2xx(o) =>
                 /\ result.kind = "raise"
                 /\ result.error.exc = "HTTPError"
                 /\ result.error.status = o.status

----------------------------------------------------------------------------
(* C13 *)

HttpVerbs == {"GET", "POST", "DELETE"}

C13_Call ==
    (pc = "idle" /\ op' \in SingleRequestOps) =>
        /\ pc' = "done"
        /\ Len(log') = 1
        /\ log'[1].method \in HttpVerbs
        /\ Len(responses') = 1
        /\ result' # NoResult
        /\ responses'[1] = NetworkError => result' = Raise(ConnectionError)
        /\ (responses'[1] # NetworkError /\ responses'[1].status >= 400)
             => (result'.kind = "raise" /\ result'.error.exc = "HTTPError")

C13_NoFollowUp ==
    (op \in SingleRequestOps /\ pc # "idle") => (pc = "done" /\ pc' = "idle")

\* C13: each of get_all_wallets, create_wallet, get_wallet, delete_wallet,
\* get_wallet_ledger_as_user, check_payment_status and get_payments issues
\* exactly one HTTP request per invocation whatever the answer (202 and 404
\* included): no retry, no poll loop, and a failure of that request reaches
\* the caller at once.
C13_SingleRequest == [][C13_Call /\ C13_NoFollowUp]_vars

\* create_wallet was answered 202 and returned after its single POST
C13_Witness ==
    /\ op = "create_wallet" /\ pc = "done"
    /\ responses = <<Response(202, "{\"status\": \"pending\"}")>>
    /\ Len(log) = 1 /\ log[1].method = "POST"
    /\ result.kind = "return"

----------------------------------------------------------------------------
(* C14 *)

AuthHeaderNames == {"Authorization", "X-API-Key"}
AuthHeadersOf(headers) == (DOMAIN headers) \cap AuthHeaderNames

\* The environments under which a client is constructed
Deployments == {e \in Environments : InitOutcome(e).kind = "return"}
SchemeUnder(e) == AuthHeadersOf(get_headers(InitOutcome(e).value))

\* The configuration decides the scheme: two deployments differ in it
ConfigSelectsScheme ==
    \E e1, e2 \in Deployments : SchemeUnder(e1) # SchemeUnder(e2)

\* The headers of every request sent so far
C14_RequestHeaders ==
    \A i \in DOMAIN log :
        log[i].method # "sleep" =>
            /\ log[i].headers["Content-Type"] = "application/json"
            /\ Cardinality(AuthHeadersOf(log[i].headers)) = 1
            /\ AuthHeadersOf(log[i].headers) = AuthHeadersOf(log[1].headers)

\* C14: every outbound request, poll requests included, carries Content-Type:
\* application/json and exactly one authentication header; the scheme
\* (Authorization: Bearer or X-API-Key) is selected by configuration, not
\* fixed by the implementation; all requests of a deployment use one scheme.
C14_HeadersAndConfiguredScheme ==
    log # <<>> => (C14_RequestHeaders /\ ConfigSelectsScheme)

----------------------------------------------------------------------------
(* C15 *)

Extracted == utility.fn = "extract_operation_details"

\* The entries of a document in document order, as <<path index, key index>>
EntriesOf(spec) ==
    IF "paths" \in DOMAIN spec
    THEN UNION { {i} \X DOMAIN spec["paths"][i][2] : i \in DOMAIN spec["paths"] }
    ELSE {}
Before(x, y) == x[1] < y[1] \/ (x[1] = y[1] /\ x[2] < y[2])
EntryKey(spec, x) == spec["paths"][x[1]][2][x[2]][1]
EntryOperation(spec, x) == spec["paths"][x[1]][2][x[2]][2]
EntryMatches(spec, x, id) ==
    /\ EntryKey(spec, x) \in {"get", "post", "put", "delete", "patch"}
    /\ "operationId" \in DOMAIN EntryOperation(spec, x)
    /\ EntryOperation(spec, x)["operationId"] = id
IdUnderUnlistedKeyOnly(spec, id) ==
    /\ \E x \in EntriesOf(spec) :
          /\ "operationId" \in DOMAIN EntryOperation(spec, x)
          /\ EntryOperation(spec, x)["operationId"] = id
    /\ \A x \in EntriesOf(spec) : ~EntryMatches(spec, x, id)

\* C15: extract_operation_details returns the path, the method and the parameter
\* list of the first entry in document order whose key is one of get, post, put,
\* delete, patch and whose operationId is the one asked for, and None when the
\* document has no such entry (an id under another key does not count).
C15_FirstMatchInDocumentOrder ==
    Extracted =>
      LET spec == utility.spec
          id == utility.operation_id
          hits == {x \in EntriesOf(spec) : EntryMatches(spec, x, id)}
      IN /\ (hits = {}) <=> (utility.result = None)
         /\ \A x \in hits :
              (\A y \in hits : ~Before(y, x)) =>
                 /\ utility.result # None
                 /\ utility.result[1].path = spec["paths"][x[1]][1]
                 /\ utility.result[1].method = EntryKey(spec, x)
                 /\ utility.result[1].parameters =
                      (IF "parameters" \in DOMAIN EntryOperation(spec, x)
                       THEN EntryOperation(spec, x)["parameters"] ELSE <<>>)

\* Two entries carry the id, the first without parameters and the second with
\* them, and the first one was returned
C15_Witness ==
    /\ Extracted
    /\ Cardinality({x \in EntriesOf(utility.spec) :
                       EntryMatches(utility.spec, x, utility.operation_id)}) = 2
    /\ utility.result # None
    /\ utility.result[1].parameters = <<>>
    /\ \E x \in EntriesOf(utility.spec) :
          /\ EntryMatches(utility.spec, x, utility.operation_id)
          /\ EntryOperation(utility.spec, x) = [operationId |-> "opA", parameters |-> OneParam]

\* The id is in the document only under "head", and the answer was None
C15_WitnessUnlistedKey ==
    /\ Extracted
    /\ IdUnderUnlistedKeyOnly(utility.spec, utility.operation_id)
    /\ utility.result = None

----------------------------------------------------------------------------
(* C16 *)

SchemaCreated == utility.fn = "create_tool_schema"

ParametersOf(details) ==
    IF "parameters" \in DOMAIN details THEN Range(details["parameters"]) ELSE {}
InPathOrQuery(param) == "in" \in DOMAIN param /\ param["in"] \in {"path", "query"}
TypeOf(param) ==
    IF "schema" \in DOMAIN param /\ "type" \in DOMAIN param["schema"]
    THEN param["schema"]["type"] ELSE "string"
DescriptionOf(param) == IF "description" \in DOMAIN param THEN param["description"] ELSE ""
RequiredOf(param) == IF "required" \in DOMAIN param THEN param["required"] ELSE FALSE

\* C16: the mapping made by create_tool_schema has exactly the names of the
\* parameters located in path or query as its keys, and each name is mapped to
\* the type ("string" when unspecified), the description ("" when unspecified)
\* and the required flag of a path or query parameter of that name.
C16_FlatMappingOfPathAndQuery ==
    SchemaCreated =>
      LET located == {q \in ParametersOf(utility.operation_details) : InPathOrQuery(q)}
          mapping == utility.result.parameters
      IN /\ DOMAIN mapping = {q["name"] : q \in located}
         /\ \A n \in DOMAIN mapping :
              /\ DOMAIN mapping[n] = {"type", "description", "required"}
              /\ \E q \in located :
                    /\ q["name"] = n
                    /\ mapping[n].type = TypeOf(q)
                    /\ mapping[n].description = DescriptionOf(q)
                    /\ mapping[n].required = RequiredOf(q)

\* A header parameter was left out and a query parameter without a type was kept
C16_Witness ==
    /\ SchemaCreated
    /\ \E q \in ParametersOf(utility.operation_details) :
          /\ "in" \in DOMAIN q /\ q["in"] = "header"
          /\ q["name"] \notin DOMAIN utility.result.parameters
    /\ \E q \in ParametersOf(utility.operation_details) :
          /\ "in" \in DOMAIN q /\ q["in"] = "query"
          /\ "schema" \in DOMAIN q /\ "type" \notin DOMAIN q["schema"]
          /\ utility.result.parameters[q["name"]].type = "string"

----------------------------------------------------------------------------
(* C17 *)

IsSleep(ev) == ev.method = "sleep"

\* C17: in the poll loop two consecutive poll requests are always separated
\* by one delay of delay_seconds (2), whatever the earlier attempt ended in:
\* the entry after a poll request that is followed by anything is that delay,
\* and the entry after a delay is never a second delay.
C17_DelayBetweenPolls ==
    InCreation =>
        \A i \in 1..(Len(log) - 1) :
            /\ IsGet(log[i]) => log[i + 1] = Sleep(2)
            /\ IsSleep(log[i]) => IsGet(log[i + 1])

\* The same for the attempts that were answered by the server
C17_DelayAfterAnsweredPolls ==
    InCreation =>
        \A i \in 1..(Len(log) - 1) :
            /\ (IsGet(log[i]) /\ IsGet(log[i + 1]))
                  => \E k \in DOMAIN PollAnswers :
                        /\ PollAnswers[k] = NetworkError
                        /\ Len(SelectSeq(SubSeq(log, 1, i), IsGet)) = k
            /\ IsSleep(log[i]) => (log[i] = Sleep(2) /\ IsGet(log[i + 1]))

----------------------------------------------------------------------------
(* C18 *)

IsRequest(ev) == ev.method \in {"GET", "POST", "DELETE"}
RequestCount == Len(SelectSeq(log, IsRequest))
Running == InCreation /\ pc \in {"submitted", "polling"}
Ended == InCreation /\ pc = "done" /\ result.kind \in {"return", "raise"}

\* C18: an invocation of generate_bolt11_invoice or pay_bolt11_invoice, each
\* of whose HTTP requests returns or raises, always ends by returning a body or
\* raising, and never makes more than 1 + 5 HTTP requests (the submission and
\* at most 5 polls), whatever the server answers and whichever requests fail.
C18_EndsWithinSixRequests ==
    /\ [](InCreation => RequestCount <= 1 + 5)
    /\ (Running ~> Ended)

\* An invocation that ended after the submission and five polls
C18_Witness == Ended /\ RequestCount = 6

----------------------------------------------------------------------------
(* C19 *)

IsPost(ev) == ev.method = "POST"
OnPaymentStatusEndpoint(ev) ==
    /\ Len(ev.url) = Len(PaymentsUrl(self)) + 1
    /\ SubSeq(ev.url, 1, Len(PaymentsUrl(self))) = PaymentsUrl(self)

\* C19: one invocation of generate_bolt11_invoice or pay_bolt11_invoice sends
\* its creation POST once and never again: not after a 202, not after any
\* poll outcome, not after the timeout; whatever is requested after the
\* submission is a GET on the payment-status endpoint, with no body.
C19_SubmittedOnce ==
    InCreation =>
        /\ IsPost(log[1])
        /\ log[1].url = PaymentsUrl(self)
        /\ Len(SelectSeq(log, IsPost)) = 1
        /\ \A i \in 2..Len(log) :
              IsRequest(log[i]) =>
                  /\ IsGet(log[i])
                  /\ OnPaymentStatusEndpoint(log[i])
                  /\ log[i].json = None

\* After a 202 and five polls of every failing kind the invocation timed out,
\* with one POST in all
C19_Witness ==
    /\ Polled /\ pc = "done" /\ TimedOut
    /\ Len(SelectSeq(log, IsPost)) = 1
    /\ GetCount = 5
    /\ NetworkError \in Range(PollAnswers)
    /\ \E i \in DOMAIN PollAnswers : Is404(PollAnswers[i])

============================================================================
